---- MODULE Spec2Model ----
(***************************************************************************)
(* Model of backend/main.py: the FastAPI application with the liveness     *)
(* route GET / and the route POST /api/stock-data (get_stock_data).        *)
(*                                                                         *)
(* Numbers.  A Python float is modelled as an exact decimal: raw prices    *)
(* are integers counting thousandths (mills), values produced by           *)
(* round(x, 2) are integers counting hundredths, raw volumes are integers  *)
(* counting halves (so that int() has a fraction to drop).  NaN prices are *)
(* outside the model; a NaN volume is the malformed row.                   *)
(* An optional value (Python None or a value) is the empty or the          *)
(* one-element sequence.                                                   *)
(***************************************************************************)
EXTENDS Integers, Sequences, FiniteSets, TLC

VARIABLES endpoint, request, history, info, response, memo

vars == <<endpoint, request, history, info, response, memo>>

\* ---------------------------------------------------------------- bounds
MaxRows == 3
ObservedPool == 2

\* ------------------------------------------------------- Python helpers
None == <<>>
Some(v) == <<v>>

\* int(x) for x = num/den, den > 0: truncation toward zero
int(num, den) == IF num >= 0 THEN num \div den ELSE -((-num) \div den)

\* variant: a tie goes to the upper neighbour
RoundHalfUp(num, den) ==
    LET q == num \div den
        r == num % den
    IN  IF 2 * r < den THEN q ELSE q + 1

\* nearest integer to num/den (den > 0), a tie goes to the even neighbour
RoundHalfEven(num, den) ==
    LET q == num \div den
        r == num % den
    IN  IF 2 * r < den THEN q
        ELSE IF 2 * r > den THEN q + 1
        ELSE IF q % 2 = 0 THEN q ELSE q + 1

\* round(x, 2) for x = num/den (den # 0); the result counts hundredths
round2(num, den) ==
    IF den > 0 THEN RoundHalfEven(num * 100, den)
    ELSE RoundHalfEven(-(num * 100), -den)

Pad2(n) == IF n < 10 THEN "0" \o ToString(n) ELSE ToString(n)

Pad4(n) == IF n < 10 THEN "000" \o ToString(n)
           ELSE IF n < 100 THEN "00" \o ToString(n)
           ELSE IF n < 1000 THEN "0" \o ToString(n)
           ELSE ToString(n)

\* index.strftime("%Y-%m-%d"), also str() of a datetime.date
strftime(d) == Pad4(d.y) \o "-" \o Pad2(d.m) \o "-" \o Pad2(d.d)

\* str.upper() on the tickers of the model
upper(s) ==
    CASE s = "aapl" -> "AAPL"
      [] s = "msft" -> "MSFT"
      [] OTHER -> s

\* ------------------------------------------------------ request payloads
Date(y, m, d) == [y |-> y, m |-> m, d |-> d]

\* StockRequest bodies, already validated by pydantic
Requests ==
    { [ticker |-> "aapl", start_date |-> Date(2024, 1, 2), end_date |-> Date(2024, 1, 9)],
      [ticker |-> "aapl", start_date |-> Date(2023, 12, 29), end_date |-> Date(2024, 11, 13)],
      [ticker |-> "MSFT", start_date |-> Date(2024, 1, 2), end_date |-> Date(2024, 1, 9)] }

\* ------------------------------------------- what the provider can answer
\* One row of the DataFrame returned by Ticker.history: the index entry and
\* the columns read by the handler.  Prices in mills, Volume in halves.
Row(dt, o, h, l, c, v, nan) ==
    [date |-> dt, Open |-> o, High |-> h, Low |-> l, Close |-> c,
     Volume |-> v, VolumeNaN |-> nan]

RowPool ==
    << Row(Date(2023, 12, 29), 0, 0, 0, 0, 0, FALSE),
       Row(Date(2024, 1, 2), 100000, 105000, 99000, 102000, 2000, FALSE),
       Row(Date(2024, 1, 3), 102000, 108000, 101000, 107000, 4000, FALSE),
       Row(Date(2024, 1, 4), 125, 135, 105, 115, 1001, FALSE),
       Row(Date(2024, 1, 5), 1004, 1006, 1001, 1003, 7, FALSE),
       Row(Date(2024, 11, 12), 50000, 50000, 50000, 50000, 0, TRUE) >>

\* the rows of a DataFrame are in ascending date order
Ascending(n, size) ==
    { f \in [1..n -> 1..size] : \A i \in 1..(n - 1) : f[i] < f[i + 1] }

Frames(maxRows, size) ==
    UNION { { [i \in 1..n |-> RowPool[f[i]]] : f \in Ascending(n, size) } : n \in 0..maxRows }

Fetched(rows) == [kind |-> "ok", rows |-> rows, msg |-> ""]
Failed(msg) == [kind |-> "raise", rows |-> <<>>, msg |-> msg]

\* Ticker.history(start=..., end=...) returns a DataFrame or raises
Histories ==
    { Fetched(rows) : rows \in Frames(MaxRows, Len(RowPool)) }
        \cup { Failed("Too Many Requests. Rate limited.") }

ObservedHistories ==
    { Fetched(rows) : rows \in Frames(MaxRows, ObservedPool) }
        \cup { Failed("Too Many Requests. Rate limited.") }

Dict(d) == [kind |-> "dict", dict |-> d, msg |-> ""]
NoneInfo == [kind |-> "none", dict |-> <<>>, msg |-> ""]
InfoFailed(msg) == [kind |-> "raise", dict |-> <<>>, msg |-> msg]

FullInfo ==
    [k \in {"fiftyTwoWeekHigh", "fiftyTwoWeekLow", "marketCap", "currency"} |->
        CASE k = "fiftyTwoWeekHigh" -> 19962
          [] k = "fiftyTwoWeekLow" -> 12417
          [] k = "marketCap" -> 3000000
          [] OTHER -> 840]

Restrict(f, S) == [k \in S |-> f[k]]

\* Ticker.info returns a dict, returns None, or raises
Infos ==
    { Dict(FullInfo),
      Dict(Restrict(FullInfo, {"fiftyTwoWeekHigh", "fiftyTwoWeekLow", "currency"})),
      Dict(Restrict(FullInfo, {"currency"})),
      Dict(Restrict(FullInfo, {})),
      NoneInfo,
      InfoFailed("Expecting value: line 1 column 1 (char 0)") }

ObservedInfos == { Dict(FullInfo), NoneInfo, InfoFailed("Expecting value: line 1 column 1 (char 0)") }

\* --------------------------------------------------------- get_stock_data
Return(value) == [kind |-> "return", status |-> 200, detail |-> <<>>, value |-> Some(value)]
HTTPException(status, detail) == [kind |-> "http", status |-> status, detail |-> detail, value |-> None]
Exception(msg) == [kind |-> "exc", status |-> 0, detail |-> <<msg>>, value |-> None]

\* variant: the message quotes the upper-cased ticker
not_found_detail_upper(req) ==
    << "No data found for ticker '", upper(req.ticker), "' in the specified date range" >>

\* the f-string of line 47, piece by piece
not_found_detail(req) ==
    << "No data found for ticker '", req.ticker, "' in the specified date range" >>

\* variant: the list outlives the request (a module-level list)
StaleList ==
    IF endpoint = "/api/stock-data" /\ response.status = 200
    THEN response.content[1].data
    ELSE <<>>

\* candlestick_data = []
EmptyList == <<>>

\* the dict appended for one (index, row) of df.iterrows()
Candle(row) ==
    [date |-> strftime(row.date),
     open |-> round2(row.Open, 1000),
     high |-> round2(row.High, 1000),
     low |-> round2(row.Low, 1000),
     close |-> round2(row.Close, 1000),
     volume |-> int(row.Volume, 2)]

\* int(row["Volume"]) raises ValueError on NaN
Malformed(row) == row.VolumeNaN

\* variant: a row that cannot be converted is skipped
candlestick_data_skip(rows) ==
    LET good == {j \in 1..Len(rows) : ~Malformed(rows[j])}
        nth(i) == CHOOSE j \in good : Cardinality({k \in good : k <= j}) = i
    IN  IF good = {}
        THEN Exception("list index out of range")
        ELSE Return(EmptyList \o [i \in 1..Cardinality(good) |-> Candle(rows[nth(i)])])

\* variant: each dict is inserted at the front of the list
candlestick_data_reversed(rows) ==
    IF \E i \in 1..Len(rows) : Malformed(rows[i])
    THEN Exception("cannot convert float NaN to integer")
    ELSE Return(EmptyList \o [i \in 1..Len(rows) |-> Candle(rows[Len(rows) + 1 - i])])

\* the loop over df.iterrows(): the whole list, or the first row's exception
candlestick_data(rows) ==
    IF \E i \in 1..Len(rows) : Malformed(rows[i])
    THEN Exception("cannot convert float NaN to integer")
    ELSE Return(EmptyList \o [i \in 1..Len(rows) |-> Candle(rows[i])])

latest_close(cd) == cd[Len(cd)].close

\* variant: a single record is compared with a previous close of 0
prev_close_single_zero(cd) == IF Len(cd) >= 2 THEN cd[Len(cd) - 1].close ELSE 0

prev_close(cd) == IF Len(cd) >= 2 THEN cd[Len(cd) - 1].close ELSE latest_close(cd)

daily_change(cd) == round2(latest_close(cd) - prev_close(cd), 100)

\* variant: the ratio is not scaled to a percentage
daily_change_pct_ratio(cd) ==
    IF prev_close(cd) # 0
    THEN round2(daily_change(cd), prev_close(cd))
    ELSE 0

daily_change_pct(cd) ==
    IF prev_close(cd) # 0
    THEN round2(daily_change(cd) * 100, prev_close(cd))
    ELSE 0

RECURSIVE sum_volume(_)
sum_volume(cd) == IF cd = <<>> THEN 0 ELSE cd[1].volume + sum_volume(Tail(cd))

\* variant: the mean of the records used for the daily change
avg_volume_last_two(cd) ==
    IF Len(cd) >= 2
    THEN int(cd[Len(cd)].volume + cd[Len(cd) - 1].volume, 2)
    ELSE int(cd[Len(cd)].volume, 1)

avg_volume(cd) == int(sum_volume(cd), Len(cd))

\* dict.get(key): the value, or None when the key is missing
get(d, key) == IF key \in DOMAIN d THEN Some(d[key]) ELSE None

kpis(cd, inf) ==
    [current_price |-> latest_close(cd),
     daily_change |-> daily_change(cd),
     daily_change_pct |-> daily_change_pct(cd),
     fifty_two_week_high |-> get(inf.dict, "fiftyTwoWeekHigh"),
     fifty_two_week_low |-> get(inf.dict, "fiftyTwoWeekLow"),
     avg_volume |-> avg_volume(cd),
     market_cap |-> get(inf.dict, "marketCap")]

\* the body of the try block, lines 41-78
try_body(req, hist, inf) ==
    IF hist.kind = "raise" THEN Exception(hist.msg)
    ELSE IF hist.rows = <<>> THEN HTTPException(404, not_found_detail(req))
    ELSE LET cd == candlestick_data(hist.rows)
         IN  IF cd.kind = "exc" THEN cd
             ELSE IF inf.kind = "raise" THEN Exception(inf.msg)
             ELSE IF inf.kind = "none"
                  THEN Exception("'NoneType' object has no attribute 'get'")
             ELSE Return([ticker |-> upper(req.ticker),
                          data |-> cd.value[1],
                          kpis |-> kpis(cd.value[1], inf)])

\* variant: without "except HTTPException: raise" the catch-all converts the 404
get_stock_data_catch_all(req, hist, inf) ==
    LET r == try_body(req, hist, inf)
    IN  IF r.kind = "return"
        THEN [status |-> 200, detail |-> <<>>, content |-> r.value]
        ELSE [status |-> 500, detail |-> r.detail, content |-> None]

\* the handler with its two except clauses: what the client receives
get_stock_data(req, hist, inf) ==
    LET r == try_body(req, hist, inf)
    IN  IF r.kind = "http"
        THEN [status |-> r.status, detail |-> r.detail, content |-> None]
        ELSE IF r.kind = "exc"
        THEN [status |-> 500, detail |-> r.detail, content |-> None]
        ELSE [status |-> 200, detail |-> <<>>, content |-> r.value]

read_root == [status |-> 200, detail |-> <<>>,
              content |-> Some([message |-> "Financial Dashboard API"])]

\* ------------------------------------------------------------ transitions
\* no StockRequest body: before the first request, and on GET /
NoRequest == [ticker |-> "", start_date |-> Date(1, 1, 1), end_date |-> Date(1, 1, 1)]

Init ==
    /\ endpoint = "none"
    /\ request = NoRequest
    /\ history = Fetched(<<>>)
    /\ info = NoneInfo
    /\ response = [status |-> 0, detail |-> <<>>, content |-> None]
    /\ memo = None

Serve(req, hist, inf) ==
    /\ endpoint' = "/api/stock-data"
    /\ request' = req
    /\ history' = hist
    /\ info' = inf
    /\ response' = get_stock_data(req, hist, inf)

\* POST /api/stock-data
PostStockData ==
    /\ \E req \in Requests, hist \in Histories, inf \in Infos : Serve(req, hist, inf)
    /\ UNCHANGED memo

\* GET /
GetRoot ==
    /\ endpoint' = "/"
    /\ response' = read_root
    /\ request' = NoRequest
    /\ history' = Fetched(<<>>)
    /\ info' = NoneInfo
    /\ UNCHANGED memo

Next == PostStockData \/ GetRoot

Spec == Init /\ [][Next]_vars

\* The same server with an observer that may keep one exchange it saw
\* (memo) to compare with any later one.
Exchange == [request |-> request, history |-> history, info |-> info, response |-> response]

PostStockDataObserved ==
    /\ \E req \in Requests, hist \in ObservedHistories, inf \in ObservedInfos :
          Serve(req, hist, inf)
    /\ memo' \in {memo} \cup (IF endpoint = "/api/stock-data" THEN {Some(Exchange)} ELSE {})

NextObserved == PostStockDataObserved \/ GetRoot

SpecObserved == Init /\ [][NextObserved]_vars

\* ------------------------------------------------------------- properties
\* What a client of POST /api/stock-data can see, read off the exchange.
Stock == endpoint = "/api/stock-data"
Ok200 == Stock /\ response.status = 200
Data == response.content[1].data
Kpis == response.content[1].kpis
Rows == history.rows
WellFormed == history.kind = "ok" /\ Rows # <<>> /\ \A i \in 1..Len(Rows) : ~Rows[i].VolumeNaN
Abs(n) == IF n < 0 THEN -n ELSE n
Embeds(detail, part) == \E i \in 1..Len(detail) : detail[i] = part

\* the calendar dates of the model written out as YYYY-MM-DD
IsoDate(d) ==
    CASE d = Date(2023, 12, 29) -> "2023-12-29"
      [] d = Date(2024, 1, 2) -> "2024-01-02"
      [] d = Date(2024, 1, 3) -> "2024-01-03"
      [] d = Date(2024, 1, 4) -> "2024-01-04"
      [] d = Date(2024, 1, 5) -> "2024-01-05"
      [] d = Date(2024, 1, 9) -> "2024-01-09"
      [] d = Date(2024, 11, 12) -> "2024-11-12"
      [] d = Date(2024, 11, 13) -> "2024-11-13"
      [] OTHER -> "0001-01-01"

PriceFields == {"open", "high", "low", "close"}
RawPrice(row, f) ==
    CASE f = "open" -> row.Open
      [] f = "high" -> row.High
      [] f = "low" -> row.Low
      [] OTHER -> row.Close

\* previous close as the response shows it
PrevShown == IF Len(Data) >= 2 THEN Data[Len(Data) - 1].close ELSE Kpis.current_price

RECURSIVE TotalVolume(_, _)
TotalVolume(data, n) == IF n = 0 THEN 0 ELSE data[n].volume + TotalVolume(data, n - 1)

\* C1: when the history fetch succeeds with no rows the outcome is the 404,
\* never a 200 or a 500, whatever the metadata fetch would return or raise.
C1_EmptyRowsGive404 ==
    (Stock /\ history.kind = "ok" /\ Rows = <<>>)
        => (response.status = 404 /\ response.content = None)

C1_Witness ==
    /\ Stock /\ history.kind = "ok" /\ Rows = <<>>
    /\ info.kind = "raise"
    /\ response.status = 404

\* C2: a request ends as 200 with data and kpis, as 404 or as 500; a failed
\* history fetch, a malformed row and a failed metadata fetch each give a 500
\* carrying that failure's message; a 200 needs all three steps to have
\* succeeded and carries one candlestick per row together with the kpis.
C2_OutcomesAndNoPartialResult ==
    Stock =>
        /\ response.status \in {200, 404, 500}
        /\ (response.status = 200) <=> (response.content # None)
        /\ history.kind = "raise"
              => (response.status = 500 /\ response.detail = <<history.msg>>)
        /\ (history.kind = "ok" /\ \E i \in 1..Len(Rows) : Rows[i].VolumeNaN)
              => (response.status = 500
                  /\ response.detail = <<"cannot convert float NaN to integer">>)
        /\ (WellFormed /\ info.kind = "raise")
              => (response.status = 500 /\ response.detail = <<info.msg>>)
        /\ response.status = 200
              => /\ WellFormed
                 /\ info.kind # "raise"
                 /\ Len(Data) = Len(Rows)
                 /\ DOMAIN response.content[1] = {"ticker", "data", "kpis"}

C2_Witness ==
    /\ Stock /\ history.kind = "ok" /\ Len(Rows) >= 2
    /\ ~Rows[1].VolumeNaN /\ Rows[Len(Rows)].VolumeNaN
    /\ response.status = 500 /\ response.content = None

\* C3: the candlesticks are as many as the rows, the i-th one carrying the
\* i-th row's date as YYYY-MM-DD and the i-th row's volume cut to an integer.
C3_OneCandlestickPerRowInOrder ==
    Ok200 =>
        /\ Len(Data) = Len(Rows)
        /\ \A i \in 1..Len(Rows) :
              /\ Data[i].date = IsoDate(Rows[i].date)
              /\ 2 * Data[i].volume <= Rows[i].Volume
              /\ Rows[i].Volume < 2 * Data[i].volume + 2

C3_Witness ==
    /\ Ok200 /\ Len(Rows) = 3 /\ Len(Data) = 3
    /\ Rows[2].Volume % 2 = 1
    /\ Data[1].date # Data[3].date

\* C4: with no metadata object at all, or one lacking the three fields, the
\* request is a 200 whose three metadata kpis are null and whose other kpis
\* are those computed with metadata present; a field that is present is
\* copied, a missing one is null.
C4_AbsentMetadataStill200 ==
    (Stock /\ WellFormed /\ info.kind # "raise") =>
        /\ response.status = 200
        /\ LET full == get_stock_data(request, history, Dict(FullInfo)).content[1].kpis
               has(k) == info.kind = "dict" /\ k \in DOMAIN info.dict
               copied(k) == IF has(k) THEN <<info.dict[k]>> ELSE <<>>
           IN  /\ Kpis.fifty_two_week_high = copied("fiftyTwoWeekHigh")
               /\ Kpis.fifty_two_week_low = copied("fiftyTwoWeekLow")
               /\ Kpis.market_cap = copied("marketCap")
               /\ Kpis.current_price = full.current_price
               /\ Kpis.daily_change = full.daily_change
               /\ Kpis.daily_change_pct = full.daily_change_pct
               /\ Kpis.avg_volume = full.avg_volume

\* C5: current_price is the last close, the previous close is the close
\* before it or, with a single record, current_price itself, and
\* daily_change is their difference; one row gives a change of 0 and 0.0 %.
C5_DailyChange ==
    Ok200 =>
        /\ Kpis.current_price = Data[Len(Data)].close
        /\ Kpis.daily_change = Kpis.current_price - PrevShown
        /\ Len(Rows) = 1 => (Kpis.daily_change = 0 /\ Kpis.daily_change_pct = 0)

C5_Witness ==
    /\ Ok200 /\ Len(Rows) = 1
    /\ Rows[1].Close = 0
    /\ Kpis.daily_change = 0 /\ Kpis.daily_change_pct = 0

\* C6: daily_change_pct is daily_change / previous_close * 100 to the
\* nearest hundredth when the previous close is not 0, and 0.0 when it is,
\* in which case the request is still a 200.
C6_DailyChangePct ==
    /\ Ok200 =>
          IF PrevShown # 0
          THEN 2 * Abs(Kpis.daily_change_pct * PrevShown - 10000 * Kpis.daily_change)
                  <= Abs(PrevShown)
          ELSE Kpis.daily_change_pct = 0
    /\ (Stock /\ WellFormed /\ info.kind = "dict"
          /\ Rows[IF Len(Rows) >= 2 THEN Len(Rows) - 1 ELSE 1].Close = 0)
          => response.status = 200

C6_Witness ==
    /\ Ok200 /\ Len(Data) >= 2
    /\ PrevShown = 0 /\ Kpis.daily_change # 0
    /\ Kpis.daily_change_pct = 0

C6_WitnessNonZero ==
    /\ Ok200 /\ PrevShown # 0
    /\ (10000 * Kpis.daily_change) % PrevShown # 0
    /\ Kpis.daily_change_pct < 0

\* C7: avg_volume is the sum of all candlestick volumes divided by their
\* number, rounded down.
C7_AvgVolumeIsFloorOfMean ==
    Ok200 =>
        /\ Kpis.avg_volume * Len(Data) <= TotalVolume(Data, Len(Data))
        /\ TotalVolume(Data, Len(Data)) < (Kpis.avg_volume + 1) * Len(Data)

C7_Witness ==
    /\ Ok200 /\ Len(Data) = 3
    /\ TotalVolume(Data, 3) % 3 # 0
    /\ Kpis.avg_volume # (Data[2].volume + Data[3].volume) \div 2

\* C8 as stated: the message of the 404 embeds the ticker, the start date
\* and the end date of the request.
C8_DetailEmbedsTickerAndDates ==
    (Stock /\ response.status = 404) =>
        /\ Embeds(response.detail, request.ticker)
        /\ Embeds(response.detail, IsoDate(request.start_date))
        /\ Embeds(response.detail, IsoDate(request.end_date))

\* C8: the message of the 404 embeds the ticker as it was sent; the date
\* range appears only as the fixed words "in the specified date range".
C8_DetailEmbedsTickerOnly ==
    (Stock /\ response.status = 404) =>
        /\ response.detail = << "No data found for ticker '", request.ticker,
                                "' in the specified date range" >>
        /\ ~Embeds(response.detail, IsoDate(request.start_date))
        /\ ~Embeds(response.detail, IsoDate(request.end_date))

C8_Witness ==
    /\ Stock /\ response.status = 404
    /\ request.ticker = "aapl"
    /\ request.start_date = Date(2023, 12, 29)

\* C9 as stated: every price of every candlestick is the row's price rounded
\* to the hundredth, a price halfway between two hundredths going up.
C9_PricesRoundedHalfUp ==
    Ok200 =>
        \A i \in 1..Len(Rows) : \A f \in PriceFields :
            Data[i][f] = (RawPrice(Rows[i], f) + 5) \div 10

\* C9: every price of every candlestick is the row's price rounded to the
\* nearest hundredth, a price halfway between two hundredths going to the
\* even one.
C9_PricesRoundedHalfEven ==
    Ok200 =>
        \A i \in 1..Len(Rows) : \A f \in PriceFields :
            LET raw == RawPrice(Rows[i], f)
                out == Data[i][f]
            IN  /\ Abs(10 * out - raw) <= 5
                /\ Abs(10 * out - raw) = 5 => out % 2 = 0

C9_Witness ==
    /\ Ok200
    /\ \E i \in 1..Len(Rows) :
          /\ Rows[i].Open % 10 = 5 /\ 10 * Data[i].open < Rows[i].Open
          /\ Rows[i].High % 10 = 5 /\ 10 * Data[i].high > Rows[i].High
    /\ \E i \in 1..Len(Rows) : Rows[i].Close % 10 \in {1, 2, 3, 4}
    /\ \E i \in 1..Len(Rows) : Rows[i].High % 10 \in {6, 7, 8, 9}

C10_WitnessNotFound ==
    /\ Stock /\ memo # None
    /\ memo[1].request.ticker = request.ticker
    /\ memo[1].request # request
    /\ memo[1].history = history /\ memo[1].info = info
    /\ response.status = 404 /\ memo[1].response = response

====
